---- MODULE Spec2Model ----
(***************************************************************************)
(* A model of target_s3 (src/target_s3/__init__.py): the singer target     *)
(* that reads RECORD / STATE lines from stdin, groups RECORD lines into    *)
(* per-partition buffers, flushes the buffers through a temporary          *)
(* directory to S3, and writes the latest STATE value to a state file.     *)
(*                                                                         *)
(* One behaviour of the model is one run of main(): the input lines are    *)
(* chosen one at a time, and every file-system or S3 call that can fail    *)
(* either succeeds or raises.                                              *)
(***************************************************************************)
EXTENDS Integers, Sequences, FiniteSets, TLC

(***************************************************************************)
(* Bounds of the model.                                                    *)
(***************************************************************************)
\* number of input lines of a run
MaxLines == 4

(***************************************************************************)
(* Program constants.                                                      *)
(***************************************************************************)
\* main: "if bytes_in_file > 10000000"
FlushThreshold == 10000000
\* sys.getsizeof of a str of ASCII characters is 49 + its length
StrOverhead == 49

\* lengths of the input lines (characters): a short line, and a line so
\* long that two of them cross the flush threshold
ShortLine == 20
LongLine == 6000000
LineLengths == {ShortLine, LongLine}

Streams == {"A", "B"}

\* calendar dates <<year, month, day>>
IdDate      == <<2012, 10, 17>>    \* generation time of an ObjectId
CreatedDate == <<2020, 1, 5>>      \* a parseable created_at string
Today       == <<2026, 11, 4>>     \* datetime.datetime.now() of the run

\* the time of day of datetime.now() in upload_to_s3:
\* <<minute, second, microsecond>>
FlushTimes == { <<1, 23, 4>>, <<12, 3, 4>> }

(***************************************************************************)
(* Input lines.                                                            *)
(***************************************************************************)
\* the 'value' of a STATE line: the bookmarks, stream -> replication_method
\* as singer.get_bookmark returns it ("None", Python's None: the stream has
\* no bookmark)
StateValues ==
    { [s \in Streams |-> IF s = "A" THEN "FULL_TABLE" ELSE "None"],
      [s \in Streams |-> IF s = "A" THEN "LOG_BASED" ELSE "FULL_TABLE"] }

NoValue == [s \in Streams |-> "None"]

\* a field of a record payload: its key and the date its value parses to
\* (NoDate: the value does not parse, ObjectId(v) or dateutil raise)
NoDate == <<0, 0, 0>>
\* record payloads: the fields in the order of the JSON object
Field(k, date) == [k |-> k, date |-> date]
Payloads ==
    { <<>>,
      <<Field("name", NoDate)>>,
      <<Field("_id", IdDate)>>,
      <<Field("_id", NoDate)>>,
      <<Field("created_at", CreatedDate)>>,
      <<Field("_id", IdDate), Field("created_at", CreatedDate)>>,
      <<Field("created_at", CreatedDate), Field("_id", IdDate)>>,
      <<Field("_id", NoDate), Field("created_at", CreatedDate)>>,
      <<Field("created_at", CreatedDate), Field("created_at", NoDate)>> }

\* The shapes of a line.  kind "garbage" is a line json.loads rejects,
\* "notype" a JSON value without 'type', "OTHER" any other type (SCHEMA..).
LineShapes ==
    [kind : {"garbage", "notype", "OTHER"}, hasStream : {FALSE},
     stream : {"A"}, hasRecord : {FALSE}, record : {<<>>},
     hasValue : {FALSE}, value : {NoValue}]
    \cup
    [kind : {"RECORD"}, hasStream : {FALSE},
     stream : {"A"}, hasRecord : {TRUE}, record : {<<>>},
     hasValue : {FALSE}, value : {NoValue}]
    \cup
    [kind : {"RECORD"}, hasStream : {TRUE},
     stream : Streams, hasRecord : {TRUE}, record : Payloads,
     hasValue : {FALSE}, value : {NoValue}]
    \cup
    [kind : {"RECORD"}, hasStream : {TRUE},
     stream : Streams, hasRecord : {FALSE}, record : {<<>>},
     hasValue : {FALSE}, value : {NoValue}]
    \cup
    [kind : {"STATE"}, hasStream : {FALSE},
     stream : {"A"}, hasRecord : {FALSE}, record : {<<>>},
     hasValue : {TRUE}, value : StateValues]
    \cup
    [kind : {"STATE"}, hasStream : {FALSE},
     stream : {"A"}, hasRecord : {FALSE}, record : {<<>>},
     hasValue : {FALSE}, value : {NoValue}]

\* what a line is: a well-formed RECORD line (type RECORD, a stream and a
\* record payload), a STATE line that carries a value, or anything else
LineClass(line) ==
    CASE line.kind = "RECORD" /\ line.hasStream /\ line.hasRecord -> "record"
      [] line.kind = "STATE" /\ line.hasValue -> "state"
      [] OTHER -> "other"

\* the text of a line as the buffers and files hold it: its position in
\* the input (which makes every line distinct) and its length
LineText(n, len) == [id |-> n, len |-> len]

\* sys.getsizeof(line)
getsizeof(text) == StrOverhead + text.len

\* main's "state = {}"
EmptyState == [kind |-> "empty", hasValue |-> FALSE, value |-> NoValue]

\* the json_line of a STATE line, as main's state holds it
StateOf(line) == [kind |-> "STATE", hasValue |-> line.hasValue, value |-> line.value]


(***************************************************************************)
(* The partition buffer: a Python dict, which keeps its keys in insertion  *)
(* order, as the sequence of its items [key, lines].                       *)
(***************************************************************************)
Keys(m) == {m[i].key : i \in DOMAIN m}

Get(m, k) == (CHOOSE i \in DOMAIN m : m[i].key = k)

LinesOf(m, k) == m[Get(m, k)].lines

\* f'{replication_method}::{stream}::{year}-{month}-{day}'
StreamName(method, stream, date) == <<method, stream, date>>

\* add_to_stream_records with the line put in front of the list
add_to_stream_records_front(stream_map, stream_name, line) ==
    IF stream_name \notin Keys(stream_map)
    THEN Append(stream_map, [key |-> stream_name, lines |-> <<line>>])
    ELSE [i \in DOMAIN stream_map |->
            IF stream_map[i].key = stream_name
            THEN [stream_map[i] EXCEPT !.lines = <<line>> \o @]
            ELSE stream_map[i]]

add_to_stream_records(stream_map, stream_name, line) ==
    IF stream_name \notin Keys(stream_map)
    THEN Append(stream_map, [key |-> stream_name, lines |-> <<line>>])
    ELSE [i \in DOMAIN stream_map |->
            IF stream_map[i].key = stream_name
            THEN [stream_map[i] EXCEPT !.lines = Append(@, line)]
            ELSE stream_map[i]]

(***************************************************************************)
(* The partition key of a RECORD line.                                     *)
(***************************************************************************)
\* singer.get_bookmark(state['value'], stream, 'replication_method')
get_bookmark(value, stream) == value[stream]

\* the loop over json_line['record'].items(): every '_id' or 'created_at'
\* field whose value parses assigns time_created; a field that raises is
\* passed over.  The loop has no break.
RECURSIVE ScanFields(_, _)
ScanFields(record, time_created) ==
    IF record = <<>> THEN time_created
    ELSE LET f == Head(record)
             t == IF f.k \in {"_id", "created_at"} /\ f.date # NoDate
                  THEN f.date ELSE time_created
         IN ScanFields(Tail(record), t)

(***************************************************************************)
(* The state file.                                                         *)
(***************************************************************************)
\* json.dumps(state["value"]): the text, as its sequence of tokens
Serialize(value) ==
    LET Entry(s) == IF value[s] = "None" THEN <<>> ELSE <<s, value[s]>>
    IN <<"{">> \o Entry("A") \o Entry("B") \o <<"}">>

AbsentFile == [exists |-> FALSE, text |-> <<>>]

\* open(path, 'a'): the file keeps its content
open_a(file) == [exists |-> TRUE, text |-> file.text]

\* open(path, 'w'): the file is created or truncated
open_w(file) == [exists |-> TRUE, text |-> <<>>]

\* f.write(text)
write(file, text) == [file EXCEPT !.text = @ \o text]

\* what can go wrong in persist_state: nothing, os.makedirs raises, open
\* raises, f.write raises
PersistOutcomes(fs) ==
    {"ok", "open", "write"} \cup (IF fs.dir THEN {} ELSE {"mkdir"})

\* persist_state(state, config) on the file system fs = [dir, file];
\* the result is the file system after it and whether it raised
persist_state(st, fs, io) ==
    IF ~fs.dir /\ io = "mkdir"
    THEN [raised |-> TRUE, why |-> "persist", fs |-> fs]
    ELSE IF io = "open"
    THEN [raised |-> TRUE, why |-> "persist", fs |-> [fs EXCEPT !.dir = TRUE]]
    ELSE LET f == open_w(fs.file)
         IN IF ~st.hasValue
            \* json.dumps(state["value"]) raises KeyError, the file is open
            THEN [raised |-> TRUE, why |-> "rejected",
                  fs |-> [dir |-> TRUE, file |-> f]]
            ELSE IF io = "write"
            THEN [raised |-> TRUE, why |-> "persist",
                  fs |-> [dir |-> TRUE, file |-> f]]
            ELSE [raised |-> FALSE, why |-> "ok",
                  fs |-> [dir |-> TRUE, file |-> write(f, Serialize(st.value))]]

(***************************************************************************)
(* create_stream_to_record_map.                                            *)
(***************************************************************************)
Raise(stream_map, st, fs, why) ==
    [raised |-> TRUE, why |-> why, stream_map |-> stream_map, state |-> st,
     fs |-> fs, key |-> <<>>]

Return(stream_map, st, fs, key) ==
    [raised |-> FALSE, why |-> "ok", stream_map |-> stream_map, state |-> st,
     fs |-> fs, key |-> key]

\* the RECORD branch with the line added to the buffer before the
\* replication method is looked up
RecordBranch_add_first(stream_map, line, text, st, fs, now) ==
    IF ~line.hasStream
    THEN Raise(stream_map, st, fs, "rejected")
    ELSE IF ~st.hasValue
    THEN Raise(add_to_stream_records(stream_map,
                   StreamName("None", line.stream, now), text),
               st, fs, "rejected")
    ELSE LET method == get_bookmark(st.value, line.stream)
         IN IF method = "FULL_TABLE" /\ ~line.hasRecord
            THEN Raise(add_to_stream_records(stream_map,
                           StreamName(method, line.stream, now), text),
                       st, fs, "rejected")
            ELSE LET time_created ==
                         IF method = "FULL_TABLE"
                         THEN ScanFields(line.record, now) ELSE now
                     key == StreamName(method, line.stream, time_created)
                 IN Return(add_to_stream_records(stream_map, key, text),
                           st, fs, key)

\* lines 43-65: the RECORD branch.  now is datetime.datetime.now()'s date
RecordBranch(stream_map, line, text, st, fs, now) ==
    IF ~line.hasStream
    THEN Raise(stream_map, st, fs, "rejected")
    ELSE IF ~st.hasValue
    \* state['value'] raises KeyError
    THEN Raise(stream_map, st, fs, "rejected")
    ELSE LET method == get_bookmark(st.value, line.stream)
         IN IF method = "FULL_TABLE" /\ ~line.hasRecord
            \* json_line['record'] raises KeyError
            THEN Raise(stream_map, st, fs, "rejected")
            ELSE LET time_created ==
                         IF method = "FULL_TABLE"
                         THEN ScanFields(line.record, now) ELSE now
                     key == StreamName(method, line.stream, time_created)
                 IN Return(add_to_stream_records(stream_map, key, text),
                           st, fs, key)

\* lines 67-69: the STATE branch
StateBranch(stream_map, line, st, config, fs, io) ==
    IF config.state_file_path
    THEN LET p == persist_state(StateOf(line), fs, io)
         IN IF p.raised
            THEN Raise(stream_map, st, p.fs, p.why)
            ELSE Return(stream_map, StateOf(line), p.fs, <<>>)
    ELSE Return(stream_map, st, fs, <<>>)

\* create_stream_to_record_map(stream_map, line, state, config): the buffer
\* and the file system after the call, and either the state it returns or
\* that it raised (then main keeps its own state)
create_stream_to_record_map(stream_map, line, text, st, config, fs, io, now) ==
    CASE line.kind = "garbage" -> Raise(stream_map, st, fs, "rejected")
      [] line.kind = "notype"  -> Raise(stream_map, st, fs, "rejected")
      [] line.kind = "RECORD"  -> RecordBranch(stream_map, line, text, st, fs, now)
      [] line.kind = "STATE"   -> StateBranch(stream_map, line, st, config, fs, io)
      [] OTHER                 -> Return(stream_map, st, fs, <<>>)

(***************************************************************************)
(* The flush: staging files and S3 keys.                                   *)
(***************************************************************************)
\* config["source"]
ConfigSource == "acme"

EmptyDir == [k \in {} |-> <<>>]

\* persist_stream_map: save_and_upload_file for the first n items of the
\* buffer, each file tmp_path + stream holding the item's lines in order
persist_stream_map(stream_map, n, dir) ==
    LET new == {stream_map[i].key : i \in 1..n}
    IN [k \in (DOMAIN dir) \cup new |->
          IF k \in new THEN LinesOf(stream_map, k) ELSE dir[k]]

\* str(n) of a natural number, as its digits
RECURSIVE DecStr(_)
DecStr(n) == IF n < 10 THEN <<n>> ELSE DecStr(n \div 10) \o <<n % 10>>

\* datetime.strptime(created, '%Y-%m-%d') of the text year-month-day:
\* %Y takes four digits
strptime_ok(created) == Len(DecStr(created[1])) = 4

\* lines 99-113: the S3 key of the staging file f at the time t of day
S3Key(f, t) ==
    LET replication_method == f[1]
        source == f[2]
        dt == f[3]
        file_name == IF replication_method = "LOG_BASED"
                     THEN <<source, "_">> \o DecStr(t[1]) \o DecStr(t[2]) \o DecStr(t[3])
                     ELSE <<source>>
    IN [source |-> ConfigSource, collection |-> source,
        year |-> dt[1], month |-> dt[2], day |-> dt[3],
        file |-> file_name \o <<".json">>]

\* s3.upload_file(path, bucket, key): the object at key is replaced
upload_file(objects, key, body) ==
    [k \in (DOMAIN objects) \cup {key} |-> IF k = key THEN body ELSE objects[k]]

(***************************************************************************)
(* The state of a run of main().                                           *)
(***************************************************************************)
VARIABLES
    pc,             \* where main is: "read", "flush", "upload", "done"
    final,          \* the flush under way is the one of line 178
    nread,          \* number of lines read
    bytes_in_file,
    stream_map,
    state,
    config,         \* which optional keys the config has
    fs,             \* the state file and its directory
    tmp_path,       \* the staging directory of the cycle
    tmp_dirs,       \* the staging directories that exist, with their files
    todo,           \* upload_to_s3: the files of os.listdir not yet visited
    s3,             \* the objects of the bucket
    \* history variables
    accepted,       \* <<key, line>> of the lines buffered since the drain
    seen_state,     \* the json_line of the last STATE line read
    seen_ok,        \* persist_state wrote the value of that line
    last_line,      \* what the last line read was (LineClass)
    line_result,    \* how create_stream_to_record_map ended for the last line
    attempted,      \* staging files of the cycle for which upload_file ran
    flush_error,    \* what raised in a flush: "none", "staging", "upload"
    flushed,        \* the lines of the staging files of the finished cycles
    probe           \* ResolveSpec: the RECORD line resolved and its key

vars == <<pc, final, nread, bytes_in_file, stream_map, state, config, fs,
          tmp_path, tmp_dirs, todo, s3, accepted, seen_state, seen_ok,
          last_line, line_result, attempted, flush_error, flushed, probe>>

\* no line is being resolved on its own (Spec)
NoProbe == [line |-> <<>>, complete |-> FALSE, done |-> FALSE, key |-> <<>>]

Init ==
    /\ pc = "read"
    /\ final = FALSE
    /\ nread = 0
    /\ bytes_in_file = 0
    /\ stream_map = <<>>
    /\ state = EmptyState
    /\ config \in [state_file_path : BOOLEAN, partition_on_time_created : BOOLEAN]
    /\ fs = [dir |-> FALSE, file |-> AbsentFile]
    /\ tmp_path = 1
    /\ tmp_dirs = [d \in {1} |-> EmptyDir]
    /\ todo = {}
    /\ s3 = [k \in {} |-> <<>>]
    /\ accepted = {}
    /\ seen_state = EmptyState
    /\ seen_ok = FALSE
    /\ last_line = "none"
    /\ line_result = "ok"
    /\ attempted = {}
    /\ flush_error = "none"
    /\ flushed = {}
    /\ probe = NoProbe

(***************************************************************************)
(* The steps of main().                                                    *)
(***************************************************************************)
\* lines 164-176: one line is read and classified; past the threshold
\* main calls flush (line 173)
ProcessLine ==
    /\ pc = "read"
    /\ nread < MaxLines
    /\ \E line \in LineShapes, len \in LineLengths, io \in PersistOutcomes(fs) :
         /\ (line.kind = "STATE" /\ config.state_file_path) \/ io = "ok"
         /\ (line.kind = "RECORD" /\ line.hasStream) \/ len = ShortLine
         /\ \E r \in {create_stream_to_record_map(stream_map, line,
                          LineText(nread + 1, len), state, config, fs, io, Today)} :
              /\ nread' = nread + 1
              /\ bytes_in_file' = bytes_in_file + getsizeof(LineText(nread + 1, len))
              /\ stream_map' = r.stream_map
              /\ state' = IF r.raised THEN state ELSE r.state
              /\ fs' = r.fs
              /\ accepted' = IF line.kind = "RECORD" /\ ~r.raised
                             THEN accepted \cup {<<r.key, LineText(nread + 1, len)>>}
                             ELSE accepted
              /\ seen_state' = IF line.kind = "STATE" THEN StateOf(line) ELSE seen_state
              /\ seen_ok' = IF line.kind = "STATE"
                            THEN config.state_file_path /\ ~r.raised
                            ELSE seen_ok
              /\ last_line' = LineClass(line)
              /\ line_result' = r.why
    /\ IF bytes_in_file' > FlushThreshold
       THEN pc' = "flush" /\ attempted' = {}
       ELSE pc' = "read" /\ attempted' = attempted
    /\ UNCHANGED <<final, config, tmp_path, tmp_dirs, todo, s3, flush_error,
                   flushed, probe>>

\* the input is exhausted: main calls flush (line 178)
EndOfInput ==
    /\ pc = "read"
    /\ pc' = "flush"
    /\ final' = TRUE
    /\ attempted' = {}
    /\ UNCHANGED <<nread, bytes_in_file, stream_map, state, config, fs, tmp_path,
                   tmp_dirs, todo, s3, accepted, seen_state, seen_ok, last_line,
                   line_result, flush_error, flushed, probe>>

\* flush, line 183: persist_stream_map writes the staging files in the
\* order of the buffer; the write of item failAt raises (0: none does) and
\* the exception leaves flush and main's loop (line 179)
PersistStreamMap ==
    /\ pc = "flush"
    /\ \E failAt \in 0..Len(stream_map) :
         LET n == IF failAt = 0 THEN Len(stream_map) ELSE failAt - 1
             dir == persist_stream_map(stream_map, n, tmp_dirs[tmp_path])
         IN /\ tmp_dirs' = [tmp_dirs EXCEPT ![tmp_path] = dir]
            /\ IF failAt = 0
               THEN pc' = "upload" /\ todo' = DOMAIN dir /\ flush_error' = flush_error
               ELSE pc' = "done" /\ todo' = todo /\ flush_error' = "staging"
    /\ UNCHANGED <<final, nread, bytes_in_file, stream_map, state, config, fs,
                   tmp_path, s3, accepted, seen_state, seen_ok, last_line,
                   line_result, attempted, flushed, probe>>

\* upload_to_s3, lines 98-119: the next file of os.listdir, in whatever
\* order it lists them; strptime or upload_file may raise, and the
\* exception leaves upload_to_s3, flush and main's loop (line 179)
UploadFile ==
    /\ pc = "upload"
    /\ \E f \in todo, t \in FlushTimes, ok \in BOOLEAN :
         /\ attempted' = IF strptime_ok(f[3]) THEN attempted \cup {f} ELSE attempted
         /\ IF ok /\ strptime_ok(f[3])
            THEN /\ s3' = upload_file(s3, S3Key(f, t), tmp_dirs[tmp_path][f])
                 /\ todo' = todo \ {f}
                 /\ pc' = pc
                 /\ flush_error' = flush_error
            ELSE /\ pc' = "done"
                 /\ flush_error' = "upload"
                 /\ UNCHANGED <<s3, todo>>
    /\ UNCHANGED <<final, nread, bytes_in_file, stream_map, state, config, fs,
                   tmp_path, tmp_dirs, accepted, seen_state, seen_ok, last_line,
                   line_result, flushed, probe>>

\* delete_tmp_dir: shutil.rmtree(tmp_path)
delete_tmp_dir(dirs, path) == [d \in (DOMAIN dirs) \ {path} |-> dirs[d]]

\* create_temp_dir: the directory named after the time, made if missing
create_temp_dir(dirs, path) ==
    [d \in (DOMAIN dirs) \cup {path} |-> IF d \in DOMAIN dirs THEN dirs[d] ELSE EmptyDir]

\* the lines of the files of a staging directory
StagedLines(dir) == UNION {{dir[k][j] : j \in DOMAIN dir[k]} : k \in DOMAIN dir}

\* main after a threshold flush with line 175 left out
stream_map_kept == stream_map

\* main, line 175: stream_map = {}
stream_map_reset == <<>>

\* flush, line 185, once every file is uploaded; then main either resets
\* the buffer and goes on reading (lines 174-176) or is done (line 178)
FlushDone ==
    /\ pc = "upload"
    /\ todo = {}
    /\ IF final
       THEN /\ pc' = "done"
            /\ tmp_dirs' = delete_tmp_dir(tmp_dirs, tmp_path)
            /\ UNCHANGED <<bytes_in_file, stream_map, tmp_path, accepted, attempted>>
       ELSE /\ pc' = "read"
            /\ bytes_in_file' = 0
            /\ stream_map' = stream_map_reset
            /\ accepted' = {}
            /\ attempted' = {}
            /\ tmp_path' = tmp_path + 1
            /\ tmp_dirs' = create_temp_dir(delete_tmp_dir(tmp_dirs, tmp_path),
                                           tmp_path + 1)
    /\ flushed' = flushed \cup StagedLines(tmp_dirs[tmp_path])
    /\ UNCHANGED <<final, nread, state, config, fs, todo, s3, seen_state, seen_ok,
                   last_line, line_result, flush_error, probe>>

Next ==
    \/ ProcessLine
    \/ EndOfInput
    \/ PersistStreamMap
    \/ UploadFile
    \/ FlushDone

Spec == Init /\ [][Next]_vars

(***************************************************************************)
(* The partition key resolver on its own: create_stream_to_record_map      *)
(* applied once to a RECORD line, for every checkpoint, every config and   *)
(* every record payload.                                                   *)
(***************************************************************************)
\* the replication methods a bookmark can name
Methods == {"None", "FULL_TABLE", "LOG_BASED"}

\* RECORD lines with a stream
RecordLines == {l \in LineShapes : l.kind = "RECORD" /\ l.hasStream}

\* main between two lines, holding any checkpoint a STATE line can have
\* set; probe.complete is initial_full_table_complete of the line's
\* stream in that checkpoint, which the code never looks up
ResolveInit ==
    /\ pc = "read"
    /\ final = FALSE
    /\ nread = 0
    /\ bytes_in_file = 0
    /\ stream_map = <<>>
    /\ state \in [kind : {"STATE"}, hasValue : {TRUE}, value : [Streams -> Methods]]
    /\ config \in [state_file_path : {TRUE}, partition_on_time_created : BOOLEAN]
    /\ fs = [dir |-> FALSE, file |-> AbsentFile]
    /\ tmp_path = 1
    /\ tmp_dirs = [d \in {1} |-> EmptyDir]
    /\ todo = {}
    /\ s3 = [k \in {} |-> <<>>]
    /\ accepted = {}
    /\ seen_state = state
    /\ seen_ok = FALSE
    /\ last_line = "none"
    /\ line_result = "ok"
    /\ attempted = {}
    /\ flush_error = "none"
    /\ flushed = {}
    /\ probe \in [line : RecordLines, complete : BOOLEAN, done : {FALSE}, key : {<<>>}]

\* lines 167: the line is classified
Resolve ==
    /\ ~probe.done
    /\ \E r \in {create_stream_to_record_map(stream_map, probe.line,
                     LineText(1, ShortLine), state, config, fs, "ok", Today)} :
         /\ stream_map' = r.stream_map
         /\ line_result' = r.why
         /\ probe' = [probe EXCEPT !.done = TRUE, !.key = r.key]
    /\ UNCHANGED <<pc, final, nread, bytes_in_file, state, config, fs, tmp_path,
                   tmp_dirs, todo, s3, accepted, seen_state, seen_ok, last_line,
                   attempted, flush_error, flushed>>

ResolveSpec == ResolveInit /\ [][Resolve]_vars

(***************************************************************************)
(* Definitions the properties share.                                       *)
(***************************************************************************)
\* this step reads a line
ReadsLine == nread' = nread + 1

\* the items of the buffer that hold the line read at position n
BuffersHolding(m, n) ==
    {i \in DOMAIN m : \E j \in DOMAIN m[i].lines : m[i].lines[j].id = n}

\* the lines of a set, in the order of the input
RECURSIVE InInputOrder(_)
InInputOrder(S) ==
    IF S = {} THEN <<>>
    ELSE LET first == CHOOSE x \in S : \A y \in S : x.id <= y.id
         IN <<first>> \o InInputOrder(S \ {first})

\* the lines buffered since the drain that resolved to key k, in input order
AcceptedFor(k) == InInputOrder({p[2] : p \in {q \in accepted : q[1] = k}})

\* the staging files of the cycle under way
Staging == IF tmp_path \in DOMAIN tmp_dirs THEN tmp_dirs[tmp_path] ELSE EmptyDir

(***************************************************************************)
(* C1.  Every well-formed RECORD line is appended to exactly one partition *)
(* buffer, whatever the checkpoint is, the one before any STATE line       *)
(* included.                                                               *)
(***************************************************************************)
C1_EveryRecordBuffered ==
    [][(ReadsLine /\ last_line' = "record")
         => Cardinality(BuffersHolding(stream_map', nread')) = 1]_vars

(***************************************************************************)
(* C2.  Ordering preservation: every staging file written for a key holds  *)
(* exactly the lines buffered for that key since the last drain, in input  *)
(* order, and once persist_stream_map is through there is one file for     *)
(* every such key and no other file.                                       *)
(***************************************************************************)
C2_OrderingPreserved ==
    /\ \A k \in DOMAIN Staging : Staging[k] = AcceptedFor(k)
    /\ pc = "upload" => DOMAIN Staging = {p[1] : p \in accepted}

\* two staging files, one of them holding two lines
C2_Witness ==
    /\ pc = "upload"
    /\ Cardinality(DOMAIN Staging) >= 2
    /\ \E k \in DOMAIN Staging : Len(Staging[k]) >= 2

(***************************************************************************)
(* C3.  main never reaches the end without having called the final flush   *)
(* (line 178).                                                             *)
(***************************************************************************)
C3_FinalFlushAlways == pc = "done" => final

(***************************************************************************)
(* C4.  When a threshold-triggered flush ends, by returning or by raising, *)
(* main is back at reading lines.                                          *)
(***************************************************************************)
C4_FlushReturnsToReading ==
    [][(pc \in {"flush", "upload"} /\ ~final /\ pc' \notin {"flush", "upload"})
         => pc' = "read"]_vars

(***************************************************************************)
(* C5.  Partial-failure isolation: when an upload of a cycle has failed    *)
(* and the cycle is over, upload_file has been called for every staging    *)
(* file of the cycle.                                                      *)
(***************************************************************************)
C5_SiblingsAttempted ==
    (pc = "done" /\ flush_error = "upload") => attempted = DOMAIN Staging

(***************************************************************************)
(* C6.  When a flush cycle is over none of its staging files remains: no   *)
(* directory but that of the cycle under way holds a file, and none does   *)
(* once main is done.                                                      *)
(***************************************************************************)
C6_StagingDeleted ==
    \A d \in DOMAIN tmp_dirs :
        (pc = "done" \/ d # tmp_path) => DOMAIN tmp_dirs[d] = {}

(***************************************************************************)
(* C7.  Checkpoint last-write-wins: between two lines main's state is the  *)
(* last STATE line read.                                                   *)
(***************************************************************************)
C7_CheckpointIsLastStateLine == state = seen_state

(***************************************************************************)
(* C8.  A failure of persist_state's directory creation or file write ends *)
(* the run: main does not go on after it.                                  *)
(***************************************************************************)
C8_PersistFailureIsFatal == line_result = "persist" => pc = "done"

(***************************************************************************)
(* C9.  With state_file_path configured, once persist_state has written    *)
(* the value of the last STATE line read, the state file holds exactly the *)
(* serialization of that value, and keeps it until the next STATE line.    *)
(***************************************************************************)
C9_StateFileHoldsLastValue ==
    (config.state_file_path /\ seen_ok)
        => fs.file = [exists |-> TRUE, text |-> Serialize(seen_state.value)]

\* a second checkpoint has replaced the first in the file: stream A has a
\* FULL_TABLE partition, and the last STATE line written says LOG_BASED
C9_Witness ==
    /\ config.state_file_path /\ seen_ok
    /\ seen_state.value["A"] = "LOG_BASED"
    /\ \E k \in Keys(stream_map) : k[1] = "FULL_TABLE" /\ k[2] = "A"

Resolved == probe.done /\ probe.key # <<>>

\* the replication method of the line's stream in the checkpoint
ProbeMethod == state.value[probe.line.stream]

\* the date-extraction policy of the specification
PolicyApplies ==
    /\ config.partition_on_time_created
    /\ \/ ProbeMethod = "FULL_TABLE"
       \/ ProbeMethod = "LOG_BASED" /\ ~probe.complete

\* the date of the first '_id' or 'created_at' field that parses, and the
\* wall-clock date when there is none
RECURSIVE FirstDate(_, _)
FirstDate(record, now) ==
    IF record = <<>> THEN now
    ELSE IF Head(record).k \in {"_id", "created_at"} /\ Head(record).date # NoDate
    THEN Head(record).date
    ELSE FirstDate(Tail(record), now)

(***************************************************************************)
(* C11.  The date of the partition key is taken from the record's fields   *)
(* only when the policy applies (FULL_TABLE, or LOG_BASED before the       *)
(* initial full load is complete, and partition_on_time_created set); in   *)
(* every other case the key has the wall-clock date.                       *)
(***************************************************************************)
C11_ExtractionOnlyUnderPolicy ==
    (Resolved /\ ~PolicyApplies) => probe.key[3] = Today

(***************************************************************************)
(* C12.  When extraction applies the scan stops at the first field that    *)
(* yields a date: the key has the date of the first '_id' or 'created_at'  *)
(* field that parses, and the wall-clock date when none does.              *)
(***************************************************************************)
C12_FirstParseableFieldWins ==
    (Resolved /\ PolicyApplies /\ ProbeMethod = "FULL_TABLE" /\ probe.line.hasRecord)
        => probe.key[3] = FirstDate(probe.line.record, Today)

(***************************************************************************)
(* Definitions of the properties of the S3 objects (Spec).                 *)
(***************************************************************************)
\* the S3 key k has the layout of the partition of staging file f:
\* source=<source>/collection=<stream>/year=<Y>/month=<M>/day=<D>/<file>.json
\* with <file> the stream name, or the stream name, "_" and a suffix
KeyOfPartition(k, f) ==
    /\ k.source = ConfigSource
    /\ k.collection = f[2]
    /\ <<k.year, k.month, k.day>> = f[3]
    /\ \/ k.file = <<f[2], ".json">>
       \/ /\ Len(k.file) > 3
          /\ k.file[1] = f[2]
          /\ k.file[2] = "_"
          /\ k.file[Len(k.file)] = ".json"

\* every file of the cycle has been uploaded
CycleUploaded == pc = "upload" /\ todo = {}

(***************************************************************************)
(* C13.  When every upload of a cycle has succeeded, each partition of the *)
(* cycle has an object under a key of its own layout that holds exactly    *)
(* that partition's lines, and (in the first cycle, when the bucket held   *)
(* nothing before) the bucket holds one object per partition and no other. *)
(***************************************************************************)
C13_OneObjectPerPartition ==
    CycleUploaded =>
        /\ \A f \in DOMAIN Staging :
              \E k \in DOMAIN s3 : KeyOfPartition(k, f) /\ s3[k] = Staging[f]
        /\ tmp_path = 1 => Cardinality(DOMAIN s3) = Cardinality(DOMAIN Staging)

(***************************************************************************)
(* C14.  The object of a LOG_BASED partition is stored under a key that no *)
(* earlier upload used, whatever the times of the flushes are: the upload  *)
(* adds a key to the bucket and replaces no object.                        *)
(***************************************************************************)
C14_LogBasedKeysDistinct ==
    [][(pc = "upload" /\ \E f \in todo : f[1] = "LOG_BASED" /\ todo' = todo \ {f})
         => DOMAIN s3' # DOMAIN s3]_vars

(***************************************************************************)
(* C15.  Between two lines the running size estimate is the size of the    *)
(* buffer: the sum of the sizes of the lines the partition buffer holds.   *)
(***************************************************************************)
RECURSIVE SizeOfLines(_)
SizeOfLines(lines) ==
    IF lines = <<>> THEN 0 ELSE getsizeof(Head(lines)) + SizeOfLines(Tail(lines))

RECURSIVE SizeOfBuffer(_)
SizeOfBuffer(m) ==
    IF m = <<>> THEN 0 ELSE SizeOfLines(Head(m).lines) + SizeOfBuffer(Tail(m))

C15_EstimateIsBufferSize ==
    pc = "read" => bytes_in_file = SizeOfBuffer(stream_map)

(***************************************************************************)
(* C16.  Resume safety: when the value of a STATE line is written to the   *)
(* state file, no RECORD line read before it is still waiting in the       *)
(* buffer: every one of them has been uploaded.                            *)
(***************************************************************************)
C16_CheckpointCoversOnlyUploaded ==
    [][(ReadsLine /\ config.state_file_path /\ last_line' = "state"
          /\ line_result' = "ok")
         => stream_map = <<>>]_vars

(***************************************************************************)
(* C17.  Within a cycle two different staging files never have the same    *)
(* S3 key, whatever the times of their uploads are.                        *)
(***************************************************************************)
C17_PartitionsHaveDistinctKeys ==
    \A f \in DOMAIN Staging, g \in DOMAIN Staging :
        f # g => \A t \in FlushTimes, u \in FlushTimes : S3Key(f, t) # S3Key(g, u)

(***************************************************************************)
(* C18.  While no flush has raised, every buffered line goes to exactly    *)
(* one staging file of exactly one cycle: a cycle starts with an empty     *)
(* staging directory, no line of the buffer or of a staging file belongs   *)
(* to a finished cycle, no line is written twice in a cycle, the staging   *)
(* files of a cycle hold exactly the lines of the buffer, and once main is *)
(* done every buffered line has been flushed.                              *)
(***************************************************************************)
BufferLines == UNION {{stream_map[i].lines[j] : j \in DOMAIN stream_map[i].lines} :
                        i \in DOMAIN stream_map}

RECURSIVE CountLines(_, _)
CountLines(dir, ks) ==
    IF ks = {} THEN 0
    ELSE LET k == CHOOSE x \in ks : TRUE
         IN Len(dir[k]) + CountLines(dir, ks \ {k})

C18_EachLineFlushedOnce ==
    flush_error = "none" =>
        /\ pc \in {"read", "flush"} => Staging = EmptyDir
        /\ pc # "done" => BufferLines \cap flushed = {}
        /\ StagedLines(Staging) \cap flushed = {}
        /\ CountLines(Staging, DOMAIN Staging) = Cardinality(StagedLines(Staging))
        /\ pc = "upload" => StagedLines(Staging) = BufferLines
        /\ pc = "done" => BufferLines \subseteq flushed

\* a run of two cycles has ended: two lines went out in the threshold
\* flush and one in the final flush
C18_Witness ==
    /\ pc = "done"
    /\ flush_error = "none"
    /\ tmp_path = 2
    /\ Cardinality(flushed) = 3
    /\ Cardinality(BufferLines) = 1

(***************************************************************************)
(* C19.  A STATE line whose processing fails leaves the state file as it   *)
(* was: a file that held a checkpoint still holds it.                      *)
(***************************************************************************)
C19_FailedStateLineKeepsFile ==
    [][(ReadsLine /\ line_result' # "ok" /\ fs.file.text # <<>>)
         => fs'.file = fs.file]_vars
====
